---- MODULE Spec2Model ----
(***************************************************************************)
(* netrex: sequence windowing (generate_sequences) and the training        *)
(* controllers FactorizationModel and SequenceModel of netrex/netrex.py.   *)
(***************************************************************************)
EXTENDS Integers, Sequences, FiniteSets, TLC

(***************************************************************************)
(* Bounds of the model.                                                    *)
(***************************************************************************)
\* rows (users) of the interaction matrix given to generate_sequences
MaxGenUsers == 2
\* stored entries of one row of that matrix
MaxGenHist == 3
\* stored entries of the whole matrix
MaxGenEntries == 4
\* largest item id stored in the interaction matrix
MaxGenItem == 2
\* largest max_sequence_length given to generate_sequences
MaxSeqLen == 3
\* states of the process-wide pseudo-random generator at the entry of a call
MaxRng == 9
\* parameter values are the integers -MaxParam..MaxParam
MaxParam == 1
\* largest embedding_dim a controller is constructed with
MaxDim == 1
\* largest n_iter a controller is constructed with
MaxIter == 2
\* largest batch_size a controller is constructed with
MaxBatch == 2
\* largest num_samples given to compute_mrr
MaxSamples == 2
\* largest item id given to SequenceModel.predict
MaxPredictItem == 1

VARIABLES
    \* ---- generate_sequences ----
    interactions,           \* the matrix in CSR form: row -> its stored values in column order
    max_sequence_length,    \* the window width
    num_subsequences,       \* local of generate_sequences (first pass)
    sequences,              \* the array being filled and returned
    targets,                \* the array being filled and returned
    gen_i,                  \* index of the second pass (enumerate), 0-based
    gen_pc,                 \* "count" | "fill" | "done"
    \* ---- the controller object (FactorizationModel or SequenceModel) ----
    kind,                   \* its class, "none" before a construction succeeds
    config,                 \* _loss, _representation, _embedding_dim, _n_iter, _batch_size, _l2, _sparse
    _num_users,             \* NoCard for None
    _num_items,             \* NoCard for None
    _net,                   \* NoNet for None
    \* ---- the running fit call ----
    pc,                     \* "idle" | "epoch" | "batch" | "backward"
    fit,                    \* the locals of fit
    \* ---- the last call made on the controller ----
    call                    \* its operation, arguments and outcome

gen_vars == <<interactions, max_sequence_length, num_subsequences, sequences,
              targets, gen_i, gen_pc>>

ctl_vars == <<kind, config, _num_users, _num_items, _net>>

vars == <<gen_vars, ctl_vars, pc, fit, call>>

(***************************************************************************)
(* Helpers on sequences.                                                   *)
(***************************************************************************)
Min(a, b) == IF a < b THEN a ELSE b
Max(a, b) == IF a > b THEN a ELSE b

Zeros(n) == [j \in 1..n |-> 0]

RECURSIVE Flatten(_)
Flatten(ss) == IF ss = <<>> THEN <<>> ELSE Head(ss) \o Flatten(Tail(ss))

\* all sequences over S of length 0..n
SeqsUpTo(S, n) == UNION {[1..k -> S] : k \in 0..n}

(***************************************************************************)
(* _minibatch(tensor, batch_size): the slices tensor[i:i + batch_size]     *)
(* for i in range(0, len(tensor), batch_size), in order.                   *)
(***************************************************************************)
\* the number of slices as a slip would count it: the short last one left out
NumBatchesFloor(n, batch_size) == n \div batch_size

NumBatches(n, batch_size) == (n + batch_size - 1) \div batch_size

_minibatch(tensor, batch_size) ==
    [k \in 1..NumBatches(Len(tensor), batch_size) |->
        SubSeq(tensor, (k - 1) * batch_size + 1, Min(k * batch_size, Len(tensor)))]

(***************************************************************************)
(* data[indptr[row_num]:indptr[row_num + 1]] of interactions.tocsr(): the  *)
(* row's stored values in column order.                                    *)
(***************************************************************************)
RowData(m, row_num) == m[row_num]

(***************************************************************************)
(* _generate_sequences: the (seq[:-1], target) pairs it yields, in order.  *)
(* row_num is kept with each pair (the generator's loop variable).         *)
(***************************************************************************)
DropLast(s) == SubSeq(s, 1, Len(s) - 1)

RowWindows(m, row_num, L) ==
    LET row_data == RowData(m, row_num)
        chunks   == _minibatch(row_data, L)
    IN  IF Len(row_data) = 0
        THEN <<>>
        ELSE [k \in 1..Len(chunks) |->
                 [seq |-> DropLast(chunks[k]), target |-> chunks[k], row_num |-> row_num]]

_generate_sequences(m, L) ==
    Flatten([r \in 1..Len(m) |-> RowWindows(m, r, L)])

\* a[:len(v)] = v, the left-aligned slice: AssignTail as a slip would write it
AssignHead(a, v) ==
    [j \in 1..Len(a) |-> IF j <= Len(v) THEN v[j] ELSE a[j]]

(***************************************************************************)
(* a[-len(v):] = v for 1 <= len(v) <= len(a)                               *)
(***************************************************************************)
AssignTail(a, v) ==
    [j \in 1..Len(a) |-> IF j > Len(a) - Len(v) THEN v[j - (Len(a) - Len(v))] ELSE a[j]]

(***************************************************************************)
(* The process-wide pseudo-random generator (np.random, torch's normal_).  *)
(* A handler enters with the generator in a state s of RngStates; the c-th *)
(* call it makes finds the state RngAt(s, c), and the k-th number of a     *)
(* call is a function of that state: the runs of one state are repeatable, *)
(* and the states together give every pair of neighbouring draws.          *)
(***************************************************************************)
RngStates == 0..(MaxRng - 1)

RngAt(s, c) == (s + c) % MaxRng

RECURSIVE Pow(_, _)
Pow(n, e) == IF e = 0 THEN 1 ELSE n * Pow(n, e - 1)

\* np.random.randint(0, n, shape): element k (0-based, flattened) of the array
RandInt(s, k, n) == (s \div Pow(n, k % 2)) % n

\* an initial weight drawn from the zero-mean normal, as a value of -MaxParam..MaxParam
InitDraw(s, k) == RandInt(s, k, 2 * MaxParam + 1) - MaxParam

\* np.random.shuffle(np.arange(n)): the permutation of 1..n the state selects
RECURSIVE PermOf(_, _)
PermOf(code, elems) ==
    IF elems = <<>>
    THEN <<>>
    ELSE LET n == Len(elems)
             j == (code % n) + 1
             rest == [q \in 1..(n - 1) |-> IF q < j THEN elems[q] ELSE elems[q + 1]]
         IN  <<elems[j]>> \o PermOf(code \div n, rest)

\* the indices as a slip would draw them: n independent draws, repeats allowed
ShuffledWithRepeats(s, n) == [q \in 1..n |-> RandInt(s, q - 1, n) + 1]

Shuffled(s, n) == PermOf(s, [q \in 1..n |-> q])

\* array[shuffle_indices]
Take(array, shuffle_indices) == [q \in 1..Len(shuffle_indices) |-> array[shuffle_indices[q]]]

(***************************************************************************)
(* Embedding tables (netrex.layers.ScaledEmbedding and ZeroEmbedding over  *)
(* the engine's Embedding): id -> vector of embedding_dim values.  The row *)
(* of a padding id is zero at construction.                                *)
(***************************************************************************)
ScaledEmbedding(num_embeddings, embedding_dim, padding_idx, s) ==
    [id \in 0..(num_embeddings - 1) |->
        [c \in 1..embedding_dim |->
            IF id \in padding_idx THEN 0 ELSE InitDraw(s, id * embedding_dim + c - 1)]]

ZeroEmbedding(num_embeddings, embedding_dim, padding_idx) ==
    [id \in 0..(num_embeddings - 1) |-> [c \in 1..embedding_dim |-> 0]]

\* nn.Embedding(1, 1): the engine's own initialisation, a normal draw
PlainEmbedding(num_embeddings, embedding_dim, s) ==
    [id \in 0..(num_embeddings - 1) |->
        [c \in 1..embedding_dim |-> InitDraw(s, id * embedding_dim + c - 1)]]

(***************************************************************************)
(* The networks.  padding_idx is the set of padding ids of the network's   *)
(* tables: empty for the factorization networks, {0} for the sequence      *)
(* networks.                                                               *)
(***************************************************************************)
NoNet == [kind |-> "None"]

\* a table built without padding_idx
NoPaddingIdx == {}

\* the sequence networks' tables as a slip would build them: padding_idx left out
PaddingIdxOmitted == {}

\* padding_idx=0 of the sequence networks' tables
SeqPaddingIdx == {0}

BilinearNet(num_users, num_items, embedding_dim, s) ==
    [kind            |-> "BilinearNet",
     padding_idx     |-> NoPaddingIdx,
     user_embeddings |-> ScaledEmbedding(num_users, embedding_dim, NoPaddingIdx, RngAt(s, 0)),
     item_embeddings |-> ScaledEmbedding(num_items, embedding_dim, NoPaddingIdx, RngAt(s, 1)),
     user_biases     |-> ZeroEmbedding(num_users, 1, NoPaddingIdx),
     item_biases     |-> ZeroEmbedding(num_items, 1, NoPaddingIdx)]

TruncatedBilinearNet(num_users, num_items, embedding_dim, s) ==
    [kind         |-> "TruncatedBilinearNet",
     padding_idx  |-> NoPaddingIdx,
     rating_net   |-> BilinearNet(num_users, num_items, embedding_dim, RngAt(s, 0)),
     observed_net |-> BilinearNet(num_users, num_items, embedding_dim, RngAt(s, 2)),
     stddev       |-> PlainEmbedding(1, 1, RngAt(s, 4))]

LSTMNet(num_items, embedding_dim, s) ==
    [kind            |-> "LSTMNet",
     padding_idx     |-> SeqPaddingIdx,
     item_embeddings |-> ScaledEmbedding(num_items, embedding_dim, SeqPaddingIdx, RngAt(s, 0)),
     item_biases     |-> ZeroEmbedding(num_items, 1, SeqPaddingIdx),
     lstm            |-> InitDraw(RngAt(s, 1), 0)]

PoolNet(num_items, embedding_dim, s) ==
    [kind            |-> "PoolNet",
     padding_idx     |-> SeqPaddingIdx,
     item_embeddings |-> ScaledEmbedding(num_items, embedding_dim, SeqPaddingIdx, RngAt(s, 0)),
     item_biases     |-> ZeroEmbedding(num_items, 1, SeqPaddingIdx)]

PopularityNet(num_items, s) ==
    [kind        |-> "PopularityNet",
     padding_idx |-> SeqPaddingIdx,
     item_biases |-> ZeroEmbedding(num_items, 1, SeqPaddingIdx)]

(***************************************************************************)
(* Scores are integers; a sigmoid is a fixed-point number of thousandths.  *)
(***************************************************************************)
One == 1000

SigmoidTable == <<500, 731, 881, 953, 982, 993, 998>>

Sigmoid(x) ==
    IF x >= 0
    THEN (IF x < Len(SigmoidTable) THEN SigmoidTable[x + 1] ELSE One - 1)
    ELSE One - (IF -x < Len(SigmoidTable) THEN SigmoidTable[-x + 1] ELSE One - 1)

RECURSIVE SumSeq(_)
SumSeq(xs) == IF xs = <<>> THEN 0 ELSE Head(xs) + SumSeq(Tail(xs))

\* (a * b).sum over the embedding dimension
Dot(a, b) == SumSeq([c \in 1..Len(a) |-> a[c] * b[c]])

VecAdd(a, b) == [c \in 1..Len(a) |-> a[c] + b[c]]

(***************************************************************************)
(* BilinearNet.forward and TruncatedBilinearNet.forward on parallel arrays *)
(* of user ids and item ids.                                               *)
(***************************************************************************)
BilinearForward(net, user_ids, item_ids) ==
    [k \in 1..Len(user_ids) |->
        Dot(net.user_embeddings[user_ids[k]], net.item_embeddings[item_ids[k]])
            + net.user_biases[user_ids[k]][1] + net.item_biases[item_ids[k]][1]]

TruncatedForward(net, user_ids, item_ids) ==
    LET observed_scores == BilinearForward(net.observed_net, user_ids, item_ids)
    IN  [observed |-> [k \in 1..Len(user_ids) |-> Sigmoid(observed_scores[k])],
         rating   |-> BilinearForward(net.rating_net, user_ids, item_ids),
         stddev   |-> [k \in 1..Len(user_ids) |->
                          net.stddev[IF user_ids[k] < -1 THEN 1 ELSE 0][1]]]

(***************************************************************************)
(* The sequence networks' forward on one row of item_sequences and one row *)
(* of item_ids; a row of item_ids of length 1 (predict) is broadcast over  *)
(* the positions.                                                          *)
(***************************************************************************)
\* torch.cumsum(seen_embeddings, 1)
RECURSIVE CumSum(_)
CumSum(vs) ==
    IF Len(vs) <= 1
    THEN vs
    ELSE LET prev == CumSum(SubSeq(vs, 1, Len(vs) - 1))
         IN  Append(prev, VecAdd(prev[Len(prev)], vs[Len(vs)]))

\* one step of the engine's recurrent unit, abstracted to the one weight w:
\* the hidden state stays within -1..1
LSTMStep(w, h, x) ==
    [c \in 1..Len(x) |-> Max(-1, Min(1, w * h[c] + x[c]))]

RECURSIVE LSTMStates(_, _)
LSTMStates(w, xs) ==
    IF xs = <<>>
    THEN <<>>
    ELSE LET prev == LSTMStates(w, SubSeq(xs, 1, Len(xs) - 1))
             h    == IF prev = <<>> THEN [c \in 1..Len(xs[1]) |-> 0] ELSE prev[Len(prev)]
         IN  Append(prev, LSTMStep(w, h, xs[Len(xs)]))

ItemAt(ids_row, p) == IF Len(ids_row) = 1 THEN ids_row[1] ELSE ids_row[p]

LSTMForward(net, item_sequence, ids_row) ==
    LET user_representations ==
            LSTMStates(net.lstm, [p \in 1..Len(item_sequence) |->
                                     net.item_embeddings[item_sequence[p]]])
    IN  [p \in 1..Len(item_sequence) |->
            Dot(user_representations[p], net.item_embeddings[ItemAt(ids_row, p)])
                + net.item_biases[ItemAt(ids_row, p)][1]]

PoolForward(net, item_sequence, ids_row) ==
    LET user_representations ==
            CumSum([p \in 1..Len(item_sequence) |-> net.item_embeddings[item_sequence[p]]])
    IN  [p \in 1..Len(item_sequence) |->
            Dot(user_representations[p], net.item_embeddings[ItemAt(ids_row, p)])
                + net.item_biases[ItemAt(ids_row, p)][1]]

\* PopularityNet.forward as a slip would write it: the pooled history is kept
PopularityForwardWithHistory(net, item_sequence, ids_row) ==
    [p \in 1..Len(ids_row) |->
        net.item_biases[ids_row[p]][1]
            + SumSeq([q \in 1..Len(item_sequence) |-> item_sequence[q]])]

PopularityForward(net, item_sequence, ids_row) ==
    [p \in 1..Len(ids_row) |-> net.item_biases[ids_row[p]][1]]

\* self._net(item_sequences, item_ids) of a sequence network, row by row
SeqForward(net, item_sequences, item_ids) ==
    [b \in 1..Len(item_sequences) |->
        CASE net.kind = "LSTMNet" -> LSTMForward(net, item_sequences[b], item_ids[b])
          [] net.kind = "PoolNet" -> PoolForward(net, item_sequences[b], item_ids[b])
          [] OTHER -> PopularityForward(net, item_sequences[b], item_ids[b])]

(***************************************************************************)
(* Negative sampling and the loss strategies.  A loss is recorded with the *)
(* negatives it drew and the ids it looked up (the rows that receive       *)
(* gradient in backward); the sequence losses also with the terms that are *)
(* averaged and the scalar.                                                *)
(***************************************************************************)
n_neg_candidates == 5

Ids(array) == {array[k] : k \in 1..Len(array)}

Ids2(rows) == UNION {Ids(rows[b]) : b \in 1..Len(rows)}

MaxOf(S) == CHOOSE x \in S : \A y \in S : y <= x

\* the negatives as a slip would draw them: the upper end num_items included
Negatives1Inclusive(s, c, len, num_items) ==
    [k \in 1..len |-> RandInt(RngAt(s, c), k - 1, num_items + 1)]

\* np.random.randint(0, num_items, len(users)), the c-th call of the handler
Negatives1(s, c, len, num_items) ==
    [k \in 1..len |-> RandInt(RngAt(s, c), k - 1, num_items)]

\* np.random.randint(0, num_items, (len(users), n_neg_candidates))
Negatives2(s, c, len, num_items) ==
    [k \in 1..len |->
        [j \in 1..n_neg_candidates |->
            RandInt(RngAt(s, c), (k - 1) * n_neg_candidates + j - 1, num_items)]]

\* np.random.randint(0, num_items, tuple(users.size())) for users of shape [B, L]
NegativesLike(s, c, users, num_items) ==
    [b \in 1..Len(users) |->
        [p \in 1..Len(users[b]) |->
            RandInt(RngAt(s, c), (b - 1) * Len(users[b]) + p - 1, num_items)]]

Lookups(user_ids, item_ids, negative_ids, sequence_ids) ==
    [user_ids |-> user_ids, item_ids |-> item_ids,
     negative_ids |-> negative_ids, sequence_ids |-> sequence_ids]

(***************************************************************************)
(* FactorizationModel's losses.  Their scalar is consumed by the engine's  *)
(* backward alone and is not kept.                                         *)
(***************************************************************************)
\* _pointwise_loss, _bpr_loss and _truncated_regression_loss: one negative per example
F_sampled_loss(users, items, num_items, s) ==
    LET negatives == Negatives1(s, 0, Len(users), num_items)
    IN  [negatives |-> negatives,
         lookups   |-> Lookups(Ids(users), Ids(items), Ids(negatives), {})]

F_adaptive_loss(users, items, num_items, s) ==
    LET negatives == Negatives2(s, 0, Len(users), num_items)
    IN  [negatives |-> negatives,
         lookups   |-> Lookups(Ids(users), Ids(items), Ids2(negatives), {})]

F_regression_loss(users, items) ==
    [negatives |-> <<>>,
     lookups   |-> Lookups(Ids(users), Ids(items), {}, {})]

\* loss_fnc(user_var, item_var, ratings_var) as fit selects it
F_loss_fnc(loss, users, items, num_items, s) ==
    CASE loss = "regression" -> F_regression_loss(users, items)
      [] loss = "adaptive"   -> F_adaptive_loss(users, items, num_items, s)
      [] OTHER               -> F_sampled_loss(users, items, num_items, s)

(***************************************************************************)
(* SequenceModel's losses on a minibatch: users are the rows of sequences, *)
(* items the rows of targets.                                              *)
(***************************************************************************)
\* (items > 0).float()
Mask(items) == [b \in 1..Len(items) |-> [p \in 1..Len(items[b]) |->
                   IF items[b][p] > 0 THEN 1 ELSE 0]]

Sum2(rows) == SumSeq([b \in 1..Len(rows) |-> SumSeq(rows[b])])

Count2(rows) == SumSeq([b \in 1..Len(rows) |-> Len(rows[b])])

\* tensor.mean() of the concatenation of the arrays in terms
Mean(terms) ==
    LET total == SumSeq([t \in 1..Len(terms) |-> Sum2(terms[t])])
        count == SumSeq([t \in 1..Len(terms) |-> Count2(terms[t])])
    IN  total \div count

S_lookups(users, items, negative_ids) ==
    Lookups({}, Ids2(items), negative_ids, Ids2(users))

S_pointwise_loss(net, users, items, num_items, s) ==
    LET negatives == NegativesLike(s, 0, users, num_items)
        mask      == Mask(items)
        pos       == SeqForward(net, users, items)
        neg       == SeqForward(net, users, negatives)
        positives_loss == [b \in 1..Len(items) |-> [p \in 1..Len(items[b]) |->
                              (One - Sigmoid(pos[b][p])) * mask[b][p]]]
        negatives_loss == [b \in 1..Len(items) |-> [p \in 1..Len(items[b]) |->
                              Sigmoid(neg[b][p]) * mask[b][p]]]
        terms     == <<positives_loss, negatives_loss>>
    IN  [negatives |-> <<negatives>>,
         terms     |-> terms,
         value     |-> Mean(terms),
         lookups   |-> S_lookups(users, items, Ids2(negatives))]

S_bpr_loss(net, users, items, num_items, s) ==
    LET negatives == NegativesLike(s, 0, users, num_items)
        mask      == Mask(items)
        pos       == SeqForward(net, users, items)
        neg       == SeqForward(net, users, negatives)
        terms     == <<[b \in 1..Len(items) |-> [p \in 1..Len(items[b]) |->
                          (One - Sigmoid(pos[b][p] - neg[b][p])) * mask[b][p]]]>>
    IN  [negatives |-> <<negatives>>,
         terms     |-> terms,
         value     |-> Mean(terms),
         lookups   |-> S_lookups(users, items, Ids2(negatives))]

\* no mask is applied here
S_adaptive_loss(net, users, items, num_items, s) ==
    LET negatives == [c \in 1..n_neg_candidates |->
                         NegativesLike(s, c - 1, users, num_items)]
        negative_predictions ==
            [c \in 1..n_neg_candidates |-> SeqForward(net, users, negatives[c])]
        best_negative_prediction ==
            [b \in 1..Len(items) |-> [p \in 1..Len(items[b]) |->
                MaxOf({negative_predictions[c][b][p] : c \in 1..n_neg_candidates})]]
        positive_prediction == SeqForward(net, users, items)
        terms == <<[b \in 1..Len(items) |-> [p \in 1..Len(items[b]) |->
                      Max(best_negative_prediction[b][p] - positive_prediction[b][p] + 1, 0)]]>>
    IN  [negatives |-> negatives,
         terms     |-> terms,
         value     |-> Mean(terms),
         lookups   |-> S_lookups(users, items,
                                 UNION {Ids2(negatives[c]) : c \in 1..n_neg_candidates})]

\* loss_fnc(user_var, item_var, item_var) as fit selects it
S_loss_fnc(loss, net, users, items, num_items, s) ==
    CASE loss = "pointwise" -> S_pointwise_loss(net, users, items, num_items, s)
      [] loss = "bpr"       -> S_bpr_loss(net, users, items, num_items, s)
      [] OTHER              -> S_adaptive_loss(net, users, items, num_items, s)

(***************************************************************************)
(* loss.backward(); optimizer.step(): every row that received gradient     *)
(* moves one step in the direction d of this update; with weight decay the *)
(* other non-zero rows move one step towards zero.  A padding row receives *)
(* no gradient and is never moved.                                         *)
(***************************************************************************)
Clip(x) == Max(-MaxParam, Min(MaxParam, x))

Decay(x) == IF x > 0 THEN x - 1 ELSE IF x < 0 THEN x + 1 ELSE 0

StepTable(table, rows, padding_idx, l2, d) ==
    [id \in DOMAIN table |->
        IF id \in padding_idx THEN table[id]
        ELSE IF id \in rows THEN [c \in DOMAIN table[id] |-> Clip(table[id][c] + d)]
        ELSE IF l2 # 0 THEN [c \in DOMAIN table[id] |-> Decay(table[id][c])]
        ELSE table[id]]

StepBilinear(net, user_rows, item_rows, l2, d) ==
    [net EXCEPT
        !.user_embeddings = StepTable(@, user_rows, net.padding_idx, l2, d),
        !.item_embeddings = StepTable(@, item_rows, net.padding_idx, l2, d),
        !.user_biases     = StepTable(@, user_rows, net.padding_idx, l2, d),
        !.item_biases     = StepTable(@, item_rows, net.padding_idx, l2, d)]

OptimizerStep(net, lookups, l2, d) ==
    LET scored == lookups.item_ids \cup lookups.negative_ids
    IN  CASE net.kind = "BilinearNet" ->
                StepBilinear(net, lookups.user_ids, scored, l2, d)
          [] net.kind = "TruncatedBilinearNet" ->
                [net EXCEPT
                    !.rating_net   = StepBilinear(@, lookups.user_ids, lookups.item_ids, l2, d),
                    !.observed_net = StepBilinear(@, lookups.user_ids, scored, l2, d),
                    !.stddev       = StepTable(@, {0}, net.padding_idx, l2, d)]
          [] net.kind = "LSTMNet" ->
                [net EXCEPT
                    !.item_embeddings = StepTable(@, scored \cup lookups.sequence_ids,
                                                  net.padding_idx, l2, d),
                    !.item_biases     = StepTable(@, scored, net.padding_idx, l2, d),
                    !.lstm            = Clip(@ + d)]
          [] net.kind = "PoolNet" ->
                [net EXCEPT
                    !.item_embeddings = StepTable(@, scored \cup lookups.sequence_ids,
                                                  net.padding_idx, l2, d),
                    !.item_biases     = StepTable(@, scored, net.padding_idx, l2, d)]
          [] OTHER ->
                [net EXCEPT
                    !.item_biases     = StepTable(@, scored, net.padding_idx, l2, d)]

(***************************************************************************)
(* The controller object: the one instance the model follows.  Before a    *)
(* construction succeeds there is none.                                    *)
(***************************************************************************)
NoCard == -1

NoFit == [op |-> "none"]

NoCall == [op |-> "none", outcome |-> "none"]

NoLoss == [negatives |-> <<>>]

NoController ==
    /\ kind = "none"
    /\ config = [loss |-> "none"]
    /\ _num_users = NoCard
    /\ _num_items = NoCard
    /\ _net = NoNet
    /\ pc = "idle"
    /\ fit = NoFit
    /\ call = NoCall

NoGen ==
    /\ interactions = <<>>
    /\ max_sequence_length = 1
    /\ num_subsequences = 0
    /\ sequences = <<>>
    /\ targets = <<>>
    /\ gen_i = 0
    /\ gen_pc = "done"

(***************************************************************************)
(* FactorizationModel                                                      *)
(***************************************************************************)
\* the tuple of the assert in FactorizationModel.__init__, with a name it lacks
F_LOSSES_WITH_RNN ==
    {"pointwise", "bpr", "adaptive", "regression", "truncated_regression", "rnn"}

\* the tuple of the assert in FactorizationModel.__init__
F_LOSSES == {"pointwise", "bpr", "adaptive", "regression", "truncated_regression"}

\* the losses predict(ratings=True) accepts, with one too many
RATING_LOSSES_WITH_ADAPTIVE == {"regression", "truncated_regression", "adaptive"}

\* the losses predict(ratings=True) accepts
RATING_LOSSES == {"regression", "truncated_regression"}

\* FactorizationModel(loss, embedding_dim, n_iter, batch_size, l2, sparse)
F_Construct(loss, embedding_dim, n_iter, batch_size, l2, sparse) ==
    /\ kind = "none"
    /\ pc = "idle"
    /\ IF loss \in F_LOSSES
       THEN /\ kind' = "FactorizationModel"
            /\ config' = [loss |-> loss, embedding_dim |-> embedding_dim,
                          n_iter |-> n_iter, batch_size |-> batch_size,
                          l2 |-> l2, sparse |-> sparse]
            /\ _num_users' = NoCard
            /\ _num_items' = NoCard
            /\ _net' = NoNet
            /\ call' = [op |-> "FactorizationModel", loss |-> loss,
                        outcome |-> "constructed"]
       ELSE \* the assert fails: no object is created
            /\ UNCHANGED ctl_vars
            /\ call' = [op |-> "FactorizationModel", loss |-> loss,
                        outcome |-> "AssertionError"]
    /\ UNCHANGED <<gen_vars, pc, fit>>

\* fit, up to the epoch loop: cardinalities, network, optimizer, loss function.
\* grad is the state of the parameters' gradient buffers ("none" at creation,
\* "zero" after zero_grad, "applied" after backward and step), steps the number
\* of steps the optimizer has applied.
F_Fit(data) ==
    /\ pc = "idle"
    /\ kind = "FactorizationModel"
    /\ \E s \in RngStates :
          /\ _num_users' = data.shape[1]
          /\ _num_items' = data.shape[2]
          /\ _net' = IF config.loss \in {"truncated_regression"}
                     THEN TruncatedBilinearNet(data.shape[1], data.shape[2],
                                               config.embedding_dim, s)
                     ELSE BilinearNet(data.shape[1], data.shape[2],
                                      config.embedding_dim, s)
    /\ fit' = [op |-> "fit", interactions |-> data,
               optimizer |-> IF config.sparse THEN "Adagrad" ELSE "Adam",
               loss_fnc |-> config.loss,
               epoch_num |-> 0, shuffle_indices |-> <<>>,
               users |-> <<>>, items |-> <<>>, ratings |-> <<>>,
               batch_num |-> 0, loss |-> NoLoss,
               grad |-> "none", steps |-> 0]
    /\ pc' = "epoch"
    /\ call' = [op |-> "fit", outcome |-> "running", refit |-> _net # NoNet]
    /\ UNCHANGED <<gen_vars, kind, config>>

\* the head of one epoch: _shuffle and the tensors
F_EpochStart ==
    /\ pc = "epoch"
    /\ kind = "FactorizationModel"
    /\ fit.epoch_num < config.n_iter
    /\ \E s \in RngStates :
          LET shuffle_indices == Shuffled(s, Len(fit.interactions.row))
          IN  fit' = [fit EXCEPT
                        !.shuffle_indices = shuffle_indices,
                        !.users   = Take(fit.interactions.row, shuffle_indices),
                        !.items   = Take(fit.interactions.col, shuffle_indices),
                        !.ratings = Take(fit.interactions.data, shuffle_indices),
                        !.batch_num = 0]
    /\ pc' = "batch"
    /\ UNCHANGED <<gen_vars, ctl_vars, call>>

\* one minibatch: optimizer.zero_grad() and the loss
F_Loss ==
    /\ pc = "batch"
    /\ kind = "FactorizationModel"
    /\ fit.batch_num < NumBatches(Len(fit.users), config.batch_size)
    /\ \E s \in RngStates :
          LET batch_user == _minibatch(fit.users, config.batch_size)[fit.batch_num + 1]
              batch_item == _minibatch(fit.items, config.batch_size)[fit.batch_num + 1]
          IN  fit' = [fit EXCEPT !.grad = "zero", !.loss =
                        F_loss_fnc(fit.loss_fnc, batch_user, batch_item, _num_items, s)]
    /\ pc' = "backward"
    /\ UNCHANGED <<gen_vars, ctl_vars, call>>

\* loss.backward() and optimizer.step(): the gradients are filled and applied once
F_Step ==
    /\ pc = "backward"
    /\ kind = "FactorizationModel"
    /\ \E d \in {-1, 1} :
          _net' = OptimizerStep(_net, fit.loss.lookups, config.l2, d)
    /\ fit' = [fit EXCEPT !.batch_num = @ + 1, !.loss = NoLoss,
                           !.grad = "applied", !.steps = @ + 1]
    /\ pc' = "batch"
    /\ UNCHANGED <<gen_vars, kind, config, _num_users, _num_items, call>>

\* the minibatches of the epoch are exhausted
F_EpochEnd ==
    /\ pc = "batch"
    /\ kind = "FactorizationModel"
    /\ fit.batch_num = NumBatches(Len(fit.users), config.batch_size)
    /\ fit' = [fit EXCEPT !.epoch_num = @ + 1]
    /\ pc' = "epoch"
    /\ UNCHANGED <<gen_vars, ctl_vars, call>>

\* range(self._n_iter) is exhausted: fit returns
F_FitReturn ==
    /\ pc = "epoch"
    /\ kind = "FactorizationModel"
    /\ fit.epoch_num = config.n_iter
    /\ fit' = NoFit
    /\ pc' = "idle"
    /\ call' = [op |-> "fit", outcome |-> "returned"]
    /\ UNCHANGED <<gen_vars, ctl_vars>>

\* predict(user_ids, item_ids, ratings)
F_Predict(user_ids, item_ids, ratings) ==
    /\ pc = "idle"
    /\ kind = "FactorizationModel"
    /\ call' =
          LET args == [op |-> "predict", user_ids |-> user_ids, item_ids |-> item_ids,
                       ratings |-> ratings]
          IN  IF ratings /\ config.loss \notin RATING_LOSSES
              THEN args @@ [outcome |-> "ValueError", evaluated |-> FALSE, out |-> <<>>]
              ELSE IF _net = NoNet
              THEN \* self._net is None and is called
                   args @@ [outcome |-> "TypeError", evaluated |-> FALSE, out |-> <<>>]
              ELSE IF config.loss \in {"truncated_regression"}
              THEN LET out == TruncatedForward(_net, user_ids, item_ids)
                   IN  args @@ [outcome |-> "scores", evaluated |-> TRUE,
                                out |-> IF ratings THEN out.rating ELSE out.observed]
              ELSE args @@ [outcome |-> "scores", evaluated |-> TRUE,
                            out |-> BilinearForward(_net, user_ids, item_ids)]
    /\ UNCHANGED <<gen_vars, ctl_vars, pc, fit>>

(***************************************************************************)
(* SequenceModel                                                           *)
(***************************************************************************)
\* the tuple of the first assert in SequenceModel.__init__
S_LOSSES == {"pointwise", "bpr", "adaptive"}

\* the tuple of the second assert in SequenceModel.__init__
S_REPRESENTATIONS == {"pool", "lstm", "popularity"}

\* SequenceModel(loss, representation, embedding_dim, n_iter, batch_size, l2, sparse)
S_Construct(loss, representation, embedding_dim, n_iter, batch_size, l2, sparse) ==
    /\ kind = "none"
    /\ pc = "idle"
    /\ IF loss \in S_LOSSES /\ representation \in S_REPRESENTATIONS
       THEN /\ kind' = "SequenceModel"
            /\ config' = [loss |-> loss, representation |-> representation,
                          embedding_dim |-> embedding_dim,
                          n_iter |-> n_iter, batch_size |-> batch_size,
                          l2 |-> l2, sparse |-> sparse]
            /\ _num_users' = NoCard
            /\ _num_items' = NoCard
            /\ _net' = NoNet
            /\ call' = [op |-> "SequenceModel", loss |-> loss,
                        representation |-> representation, outcome |-> "constructed"]
       ELSE \* an assert fails: no object is created
            /\ UNCHANGED ctl_vars
            /\ call' = [op |-> "SequenceModel", loss |-> loss,
                        representation |-> representation, outcome |-> "AssertionError"]
    /\ UNCHANGED <<gen_vars, pc, fit>>

\* max(int(sequences.max() + 1), int(targets.max() + 1))
NumItemsOf(seqs, tgts) == Max(MaxOf(Ids2(seqs)) + 1, MaxOf(Ids2(tgts)) + 1)

\* fit as a slip would write it: the network is created only if there is none
S_ReuseNet(representation, num_items, embedding_dim, s) ==
    IF _net # NoNet THEN _net
    ELSE IF representation = "lstm" THEN LSTMNet(num_items, embedding_dim, s)
    ELSE IF representation = "popularity" THEN PopularityNet(num_items, s)
    ELSE PoolNet(num_items, embedding_dim, s)

\* the network fit creates for the configured representation
S_NewNet(representation, num_items, embedding_dim, s) ==
    IF representation = "lstm" THEN LSTMNet(num_items, embedding_dim, s)
    ELSE IF representation = "popularity" THEN PopularityNet(num_items, s)
    ELSE PoolNet(num_items, embedding_dim, s)

\* fit, up to the epoch loop: cardinality, network, optimizer, loss function
S_Fit(seqs, tgts) ==
    /\ pc = "idle"
    /\ kind = "SequenceModel"
    /\ IF Len(seqs) = 0 \/ Len(tgts) = 0
       THEN \* sequences.max() of an array without elements raises
            /\ call' = [op |-> "fit", outcome |-> "ValueError"]
            /\ UNCHANGED <<ctl_vars, pc, fit>>
       ELSE /\ \E s \in RngStates :
                  /\ _num_items' = NumItemsOf(seqs, tgts)
                  /\ _net' = S_NewNet(config.representation, NumItemsOf(seqs, tgts),
                                      config.embedding_dim, s)
            /\ fit' = [op |-> "fit", sequences |-> seqs, targets |-> tgts,
                       optimizer |-> IF config.sparse THEN "Adagrad" ELSE "Adam",
                       loss_fnc |-> config.loss,
                       epoch_num |-> 0, shuffle_indices |-> <<>>,
                       sequences_tensor |-> <<>>, targets_tensor |-> <<>>,
                       batch_num |-> 0, loss |-> NoLoss,
               grad |-> "none", steps |-> 0]
            /\ pc' = "epoch"
            /\ call' = [op |-> "fit", outcome |-> "running", refit |-> _net # NoNet]
            /\ UNCHANGED <<kind, config, _num_users>>
    /\ UNCHANGED gen_vars

\* the head of one epoch: the tensors are the arrays as given (_shuffle is not called)
S_EpochStart ==
    /\ pc = "epoch"
    /\ kind = "SequenceModel"
    /\ fit.epoch_num < config.n_iter
    /\ fit' = [fit EXCEPT
                  !.sequences_tensor = fit.sequences,
                  !.targets_tensor = fit.targets,
                  !.batch_num = 0]
    /\ pc' = "batch"
    /\ UNCHANGED <<gen_vars, ctl_vars, call>>

\* one minibatch: optimizer.zero_grad() and the loss
S_Loss ==
    /\ pc = "batch"
    /\ kind = "SequenceModel"
    /\ fit.batch_num < NumBatches(Len(fit.sequences_tensor), config.batch_size)
    /\ \E s \in RngStates :
          LET batch_user == _minibatch(fit.sequences_tensor, config.batch_size)[fit.batch_num + 1]
              batch_item == _minibatch(fit.targets_tensor, config.batch_size)[fit.batch_num + 1]
          IN  fit' = [fit EXCEPT !.grad = "zero", !.loss =
                        S_loss_fnc(fit.loss_fnc, _net, batch_user, batch_item, _num_items, s)
                            @@ [batch_item |-> batch_item]]
    /\ pc' = "backward"
    /\ UNCHANGED <<gen_vars, ctl_vars, call>>

\* loss.backward() and optimizer.step(): the gradients are filled and applied once
S_Step ==
    /\ pc = "backward"
    /\ kind = "SequenceModel"
    /\ \E d \in {-1, 1} :
          _net' = OptimizerStep(_net, fit.loss.lookups, config.l2, d)
    /\ fit' = [fit EXCEPT !.batch_num = @ + 1, !.loss = NoLoss,
                           !.grad = "applied", !.steps = @ + 1]
    /\ pc' = "batch"
    /\ UNCHANGED <<gen_vars, kind, config, _num_users, _num_items, call>>

\* the minibatches of the epoch are exhausted
S_EpochEnd ==
    /\ pc = "batch"
    /\ kind = "SequenceModel"
    /\ fit.batch_num = NumBatches(Len(fit.sequences_tensor), config.batch_size)
    /\ fit' = [fit EXCEPT !.epoch_num = @ + 1]
    /\ pc' = "epoch"
    /\ UNCHANGED <<gen_vars, ctl_vars, call>>

\* range(self._n_iter) is exhausted: fit returns
S_FitReturn ==
    /\ pc = "epoch"
    /\ kind = "SequenceModel"
    /\ fit.epoch_num = config.n_iter
    /\ fit' = NoFit
    /\ pc' = "idle"
    /\ call' = [op |-> "fit", outcome |-> "returned"]
    /\ UNCHANGED <<gen_vars, ctl_vars>>

(***************************************************************************)
(* compute_mrr: the counts are held in an unsigned byte tensor.            *)
(***************************************************************************)
ByteRange == 256

\* the comparison of a sampled negative with the positive, with >= for >
NegativeAboveOrTied(negative_score, positive_score) ==
    IF negative_score >= positive_score THEN 1 ELSE 0

\* negative_scores > positive_scores
NegativeAbove(negative_score, positive_score) ==
    IF negative_score > positive_score THEN 1 ELSE 0

\* inversion_counts[b][p] after k of the sampling rounds
RECURSIVE InversionCount(_, _, _, _, _, _, _, _)
InversionCount(net, seqs, tgts, num_items, s, k, b, p) ==
    IF k = 0
    THEN \* positive_scores >= positive_scores
         LET positive_scores == SeqForward(net, seqs, tgts)
         IN  IF positive_scores[b][p] >= positive_scores[b][p] THEN 1 ELSE 0
    ELSE LET positive_scores == SeqForward(net, seqs, tgts)
             negatives == NegativesLike(s, k - 1, tgts, num_items)
             negative_scores == SeqForward(net, seqs, negatives)
         IN  (InversionCount(net, seqs, tgts, num_items, s, k - 1, b, p)
                + NegativeAbove(negative_scores[b][p], positive_scores[b][p])) % ByteRange

\* the positions kept by [mask.flatten()], in flattened order
MaskedPositions(tgts) ==
    LET all == Flatten([b \in 1..Len(tgts) |-> [p \in 1..Len(tgts[b]) |-> <<b, p>>]])
        Kept(bp) == tgts[bp[1]][bp[2]] > 0
    IN  SelectSeq(all, Kept)

\* 1.0 / count as the fraction num / den (den = 0: inf)
ComputeMrrOut(net, seqs, tgts, num_items, num_samples, s) ==
    LET kept == MaskedPositions(tgts)
    IN  [q \in 1..Len(kept) |->
            [num |-> 1,
             den |-> InversionCount(net, seqs, tgts, num_items, s, num_samples,
                                    kept[q][1], kept[q][2])]]

\* compute_mrr as a slip would write it: without a network every rank is 1
S_ComputeMrrOfUntrained(seqs, tgts, num_samples) ==
    /\ pc = "idle"
    /\ kind = "SequenceModel"
    /\ \E s \in RngStates :
          call' = [op |-> "compute_mrr", sequences |-> seqs, targets |-> tgts,
                   num_samples |-> num_samples, rng |-> s,
                   outcome |-> "scores", evaluated |-> _net # NoNet,
                   out |-> IF _net = NoNet
                           THEN [q \in 1..Len(MaskedPositions(tgts)) |-> [num |-> 1, den |-> 1]]
                           ELSE ComputeMrrOut(_net, seqs, tgts, _num_items, num_samples, s)]
    /\ UNCHANGED <<gen_vars, ctl_vars, pc, fit>>

S_ComputeMrr(seqs, tgts, num_samples) ==
    /\ pc = "idle"
    /\ kind = "SequenceModel"
    /\ \E s \in RngStates :
          call' =
              LET args == [op |-> "compute_mrr", sequences |-> seqs, targets |-> tgts,
                           num_samples |-> num_samples, rng |-> s]
              IN  IF _net = NoNet
                  THEN \* self._net is None and is called
                       args @@ [outcome |-> "TypeError", evaluated |-> FALSE, out |-> <<>>]
                  ELSE args @@ [outcome |-> "scores", evaluated |-> TRUE,
                                out |-> ComputeMrrOut(_net, seqs, tgts, _num_items,
                                                      num_samples, s)]
    /\ UNCHANGED <<gen_vars, ctl_vars, pc, fit>>

(***************************************************************************)
(* predict(sequences, item_ids): item_ids.reshape(-1, 1) gives one target  *)
(* per row of sequences.                                                   *)
(***************************************************************************)
PredictOut(net, seqs, item_ids) ==
    Flatten(SeqForward(net, seqs, [b \in 1..Len(item_ids) |-> <<item_ids[b]>>]))

\* predict as a slip would write it: gradients are tracked and a step is applied
S_PredictWithStep(seqs, item_ids) ==
    /\ pc = "idle"
    /\ kind = "SequenceModel"
    /\ _net # NoNet
    /\ call' = [op |-> "predict", sequences |-> seqs, item_ids |-> item_ids,
                outcome |-> "scores", evaluated |-> TRUE,
                out |-> PredictOut(_net, seqs, item_ids)]
    /\ _net' = OptimizerStep(_net, S_lookups(seqs, <<item_ids>>, {}), 0, 1)
    /\ UNCHANGED <<gen_vars, kind, config, _num_users, _num_items, pc, fit>>

S_Predict(seqs, item_ids) ==
    /\ pc = "idle"
    /\ kind = "SequenceModel"
    /\ call' =
          LET args == [op |-> "predict", sequences |-> seqs, item_ids |-> item_ids]
          IN  IF _net = NoNet
              THEN \* self._net is None and is called
                   args @@ [outcome |-> "TypeError", evaluated |-> FALSE, out |-> <<>>]
              ELSE args @@ [outcome |-> "scores", evaluated |-> TRUE,
                            out |-> PredictOut(_net, seqs, item_ids)]
    /\ UNCHANGED <<gen_vars, ctl_vars, pc, fit>>

(***************************************************************************)
(* generate_sequences                                                      *)
(***************************************************************************)
RECURSIVE SumLen(_)
SumLen(ss) == IF ss = <<>> THEN 0 ELSE Len(Head(ss)) + SumLen(Tail(ss))

\* the matrices of n rows with non-zero item ids and at most e stored entries
RECURSIVE MatricesOf(_, _)
MatricesOf(n, e) ==
    IF n = 0
    THEN {<<>>}
    ELSE UNION {{<<row>> \o rest : rest \in MatricesOf(n - 1, e - Len(row))} :
                   row \in SeqsUpTo(1..MaxGenItem, Min(MaxGenHist, e))}

\* the matrices with non-zero item ids, within the bounds
GenMatrices == UNION {MatricesOf(n, MaxGenEntries) : n \in 1..MaxGenUsers}

GenInit ==
    /\ interactions \in GenMatrices
    /\ max_sequence_length \in 1..MaxSeqLen
    /\ num_subsequences = 0
    /\ sequences = <<>>
    /\ targets = <<>>
    /\ gen_i = 0
    /\ gen_pc = "count"
    /\ NoController

\* first pass: count the windows, allocate both arrays with zeros
GenCount ==
    /\ gen_pc = "count"
    /\ LET n == Len(_generate_sequences(interactions, max_sequence_length))
       IN  /\ num_subsequences' = n
           /\ sequences' = [i \in 1..n |-> Zeros(max_sequence_length)]
           /\ targets' = [i \in 1..n |-> Zeros(max_sequence_length)]
    /\ gen_i' = 0
    /\ gen_pc' = "fill"
    /\ UNCHANGED <<interactions, max_sequence_length>>
    /\ UNCHANGED <<ctl_vars, pc, fit, call>>

\* one iteration of the second pass
GenFill ==
    /\ gen_pc = "fill"
    /\ gen_i < num_subsequences
    /\ LET w == _generate_sequences(interactions, max_sequence_length)[gen_i + 1]
       IN  IF Len(w.seq) = 0
           THEN \* if not len(seq): continue
                UNCHANGED <<sequences, targets>>
           ELSE /\ sequences' = [sequences EXCEPT ![gen_i + 1] = AssignTail(@, w.seq)]
                /\ targets' = [targets EXCEPT ![gen_i + 1] = AssignTail(@, w.target)]
    /\ gen_i' = gen_i + 1
    /\ UNCHANGED <<interactions, max_sequence_length, num_subsequences, gen_pc>>
    /\ UNCHANGED <<ctl_vars, pc, fit, call>>

GenReturn ==
    /\ gen_pc = "fill"
    /\ gen_i = num_subsequences
    /\ gen_pc' = "done"
    /\ UNCHANGED <<interactions, max_sequence_length, num_subsequences, sequences,
                   targets, gen_i>>
    /\ UNCHANGED <<ctl_vars, pc, fit, call>>

\* the pair generate_sequences(interactions, max_sequence_length) returns
generate_sequences(m, L) ==
    LET gen == _generate_sequences(m, L)
    IN  [sequences |-> [i \in 1..Len(gen) |->
                           IF Len(gen[i].seq) = 0 THEN Zeros(L)
                           ELSE AssignTail(Zeros(L), gen[i].seq)],
         targets   |-> [i \in 1..Len(gen) |->
                           IF Len(gen[i].seq) = 0 THEN Zeros(L)
                           ELSE AssignTail(Zeros(L), gen[i].target)]]

(***************************************************************************)
(* Specification of generate_sequences.                                    *)
(***************************************************************************)
GenNext == GenCount \/ GenFill \/ GenReturn

SpecGen == GenInit /\ [][GenNext]_vars

(***************************************************************************)
(* The callers of the controllers: the arguments they pass.                *)
(***************************************************************************)
\* loss names a caller may pass; "rnn" is the one of the test program
LossNames == F_LOSSES \cup {"rnn"}

\* representation names a caller may pass; "cnn" is not a representation
RepresentationNames == S_REPRESENTATIONS \cup {"cnn"}

L2Values == {0, 1}

\* a coo_matrix: its shape and the parallel arrays row, col, data
Coo(shape, entries) ==
    [shape |-> shape,
     row   |-> [k \in 1..Len(entries) |-> entries[k][1]],
     col   |-> [k \in 1..Len(entries) |-> entries[k][2]],
     data  |-> [k \in 1..Len(entries) |-> entries[k][3]]]

\* interaction matrices given to FactorizationModel.fit
FitMatrices ==
    {Coo(<<1, 1>>, <<<<0, 0, 1>>>>),
     Coo(<<2, 2>>, <<<<0, 0, 1>>, <<1, 1, 2>>>>)}

\* (user_ids, item_ids) given to FactorizationModel.predict
PredictPairs ==
    {[user_ids |-> <<0, 0>>, item_ids |-> <<0, 0>>]}

\* the histories whose windows are given to SequenceModel.fit and compute_mrr
FitHistories ==
    {<<<<>>>>, <<<<1>>>>, <<<<1, 2>>>>, <<<<1, 2>>, <<2>>>>}

FitWindows == {3}

\* (sequences, targets) as generate_sequences returns them
SequenceData ==
    {generate_sequences(m, L) : m \in FitHistories, L \in FitWindows}

\* rows of sequences given to SequenceModel.predict
PredictHistories == {<<0>>, <<1>>}

InTable(ids, num_items) == \A id \in ids : id < num_items

(***************************************************************************)
(* Specification of the controllers' life cycle.                           *)
(***************************************************************************)
Init == NoGen /\ NoController

ConstructFactorization ==
    \E loss \in LossNames, embedding_dim \in 1..MaxDim, n_iter \in 1..MaxIter,
       batch_size \in 1..MaxBatch, l2 \in L2Values, sparse \in BOOLEAN :
        F_Construct(loss, embedding_dim, n_iter, batch_size, l2, sparse)

ConstructSequence ==
    \E loss \in LossNames, representation \in RepresentationNames,
       embedding_dim \in 1..MaxDim, n_iter \in 1..MaxIter,
       batch_size \in 1..MaxBatch, l2 \in L2Values, sparse \in BOOLEAN :
        S_Construct(loss, representation, embedding_dim, n_iter, batch_size, l2, sparse)

FitFactorization == \E data \in FitMatrices : F_Fit(data)

FitSequence == \E data \in SequenceData : S_Fit(data.sequences, data.targets)

\* the ids a caller passes to a fitted controller are ids of its tables
PredictFactorization ==
    \E pair \in PredictPairs, ratings \in BOOLEAN :
        F_Predict(pair.user_ids, pair.item_ids, ratings)

PredictSequence ==
    \E history \in PredictHistories, item \in 0..MaxPredictItem :
        /\ _net # NoNet => InTable(Ids(history) \cup {item}, _num_items)
        /\ S_Predict(<<history>>, <<item>>)

\* the caller does not call compute_mrr twice in a row
ComputeMrr ==
    \E data \in SequenceData, num_samples \in 0..MaxSamples :
        /\ call.op # "compute_mrr"
        /\ Len(data.sequences) > 0
        /\ _net # NoNet => NumItemsOf(data.sequences, data.targets) <= _num_items
        /\ S_ComputeMrr(data.sequences, data.targets, num_samples)

Next ==
    \/ ConstructFactorization
    \/ FitFactorization
    \/ F_EpochStart
    \/ F_Loss
    \/ F_Step
    \/ F_EpochEnd
    \/ F_FitReturn
    \/ PredictFactorization
    \/ ConstructSequence
    \/ FitSequence
    \/ S_EpochStart
    \/ S_Loss
    \/ S_Step
    \/ S_EpochEnd
    \/ S_FitReturn
    \/ PredictSequence

Spec == Init /\ [][Next]_vars

(***************************************************************************)
(* Specification of the evaluation calls (predict, compute_mrr) of one     *)
(* controller: never fitted, or fitted with any parameter values a fit can *)
(* leave behind.                                                           *)
(***************************************************************************)
\* the tables of a sequence network: the row of the padding id is zero
FittedTables(num_items, embedding_dim) ==
    {t \in [0..(num_items - 1) -> [1..embedding_dim -> -MaxParam..MaxParam]] :
        \A id \in SeqPaddingIdx : t[id] = Zeros(embedding_dim)}

FittedNets(representation, num_items, embedding_dim) ==
    IF representation = "lstm"
    THEN {[kind |-> "LSTMNet", padding_idx |-> SeqPaddingIdx,
           item_embeddings |-> e, item_biases |-> b, lstm |-> w] :
              e \in FittedTables(num_items, embedding_dim),
              b \in FittedTables(num_items, 1), w \in -MaxParam..MaxParam}
    ELSE IF representation = "popularity"
    THEN {[kind |-> "PopularityNet", padding_idx |-> SeqPaddingIdx,
           item_biases |-> b] : b \in FittedTables(num_items, 1)}
    ELSE {[kind |-> "PoolNet", padding_idx |-> SeqPaddingIdx,
           item_embeddings |-> e, item_biases |-> b] :
              e \in FittedTables(num_items, embedding_dim),
              b \in FittedTables(num_items, 1)}

\* the tables of a factorization network: no padding id
PlainTables(num, embedding_dim) ==
    [0..(num - 1) -> [1..embedding_dim -> -MaxParam..MaxParam]]

FittedBilinearNets(num_users, num_items, embedding_dim) ==
    {[kind |-> "BilinearNet", padding_idx |-> NoPaddingIdx,
      user_embeddings |-> ue, item_embeddings |-> ie,
      user_biases |-> ub, item_biases |-> ib] :
         ue \in PlainTables(num_users, embedding_dim),
         ie \in PlainTables(num_items, embedding_dim),
         ub \in PlainTables(num_users, 1), ib \in PlainTables(num_items, 1)}

FittedFactorizationNets(loss, num_users, num_items, embedding_dim) ==
    IF loss \in {"truncated_regression"}
    THEN {[kind |-> "TruncatedBilinearNet", padding_idx |-> NoPaddingIdx,
           rating_net |-> r, observed_net |-> o, stddev |-> sd] :
              r \in FittedBilinearNets(num_users, num_items, embedding_dim),
              o \in FittedBilinearNets(num_users, num_items, embedding_dim),
              sd \in PlainTables(1, 1)}
    ELSE FittedBilinearNets(num_users, num_items, embedding_dim)

\* the losses of the FactorizationModel under evaluation: one that has no
\* ratings, and the two that have (one for each network)
EvalLosses == {"pointwise", "regression", "truncated_regression"}

\* a SequenceModel, constructed or fitted on data of MaxGenItem + 1 item ids
EvalSequence ==
    /\ kind = "SequenceModel"
    /\ \E representation \in S_REPRESENTATIONS, embedding_dim \in 1..MaxDim :
          /\ config = [loss |-> "pointwise", representation |-> representation,
                       embedding_dim |-> embedding_dim, n_iter |-> 1,
                       batch_size |-> 1, l2 |-> 0, sparse |-> FALSE]
          /\ \/ /\ _num_items = NoCard
                /\ _net = NoNet
                /\ call = [op |-> "SequenceModel", loss |-> "pointwise",
                           representation |-> representation, outcome |-> "constructed"]
             \/ /\ _num_items = MaxGenItem + 1
                /\ _net \in FittedNets(representation, _num_items, embedding_dim)
                /\ call = [op |-> "fit", outcome |-> "returned"]
    /\ _num_users = NoCard

\* a FactorizationModel, constructed or fitted on the matrix of one user and one item
EvalFactorization ==
    /\ kind = "FactorizationModel"
    /\ \E loss \in EvalLosses, embedding_dim \in 1..MaxDim :
          /\ config = [loss |-> loss, embedding_dim |-> embedding_dim, n_iter |-> 1,
                       batch_size |-> 1, l2 |-> 0, sparse |-> FALSE]
          /\ \/ /\ _num_users = NoCard
                /\ _num_items = NoCard
                /\ _net = NoNet
                /\ call = [op |-> "FactorizationModel", loss |-> loss,
                           outcome |-> "constructed"]
             \/ /\ _num_users = 1
                /\ _num_items = 1
                /\ _net \in FittedFactorizationNets(loss, 1, 1, embedding_dim)
                /\ call = [op |-> "fit", outcome |-> "returned"]

EvalInit ==
    /\ NoGen
    /\ EvalSequence \/ EvalFactorization
    /\ pc = "idle"
    /\ fit = NoFit

EvalNext == PredictFactorization \/ PredictSequence \/ ComputeMrr

SpecEval == EvalInit /\ [][EvalNext]_vars

(***************************************************************************)
(* Properties of generate_sequences (under SpecGen).                       *)
(***************************************************************************)
IsItem(v) == v # 0

\* the non-padded part of a row
Unpadded(row) == SelectSeq(row, IsItem)

\* the targets of the windows of user u, unpadded and concatenated in output order
UserTargets(u) ==
    LET gen == _generate_sequences(interactions, max_sequence_length)
    IN  Flatten([i \in 1..Len(targets) |->
                    IF gen[i].row_num = u THEN Unpadded(targets[i]) ELSE <<>>])

\* C1: when generate_sequences has returned, for every user row the non-padded
\* parts of that user's target windows, concatenated in output order, are exactly
\* the user's column-ordered item list.
C1_TargetsReconstructHistory ==
    gen_pc = "done" =>
        \A u \in 1..Len(interactions) : UserTargets(u) = RowData(interactions, u)

\* all padding zeros of a row are on the left
RightAligned(row) == \A j \in 1..(Len(row) - 1) : row[j] # 0 => row[j + 1] # 0

\* C9: the two returned arrays have the same number of rows, every row has
\* max_sequence_length entries, and in every row the non-zero entries form one
\* block that ends at the last position.
C9_FixedWidthRightAligned ==
    gen_pc = "done" =>
        /\ Len(sequences) = Len(targets)
        /\ \A i \in 1..Len(sequences) :
              /\ Len(sequences[i]) = max_sequence_length
              /\ Len(targets[i]) = max_sequence_length
              /\ RightAligned(sequences[i])
              /\ RightAligned(targets[i])

\* C9 witness: a returned pair of arrays with two windows, one of them a chunk
\* shorter than the window, so that its rows hold padding and items.
C9_Witness ==
    /\ gen_pc = "done"
    /\ max_sequence_length >= 2
    /\ Len(targets) >= 2
    /\ \E i \in 1..Len(targets) :
          /\ targets[i][1] = 0
          /\ sequences[i][max_sequence_length] # 0
          /\ sequences[i][max_sequence_length - 1] = 0

F_PredictCalled ==
    /\ kind = "FactorizationModel"
    /\ pc = "idle"
    /\ call'.op = "predict"
    /\ call' # call

\* C3: every FactorizationModel.predict call with ratings=True on a controller
\* whose loss is pointwise, bpr or adaptive ends in the usage error, without the
\* network having been evaluated and with the controller unchanged; and a
\* predict call with ratings=False that follows such an error on a fitted
\* controller returns scores.
C3_RatingsUsageError ==
    [][F_PredictCalled =>
          /\ (call'.ratings /\ config.loss \in {"pointwise", "bpr", "adaptive"}) =>
                /\ call'.outcome = "ValueError"
                /\ ~call'.evaluated
                /\ UNCHANGED <<kind, config, _num_users, _num_items, _net>>
          /\ (/\ call.op = "predict"
              /\ call.outcome = "ValueError"
              /\ ~call'.ratings
              /\ _net # NoNet) =>
                /\ call'.outcome = "scores"
                /\ Len(call'.out) = Len(call'.user_ids)]_vars

\* C3 witness: predict(ratings=True) has failed on a fitted controller with a
\* ranking loss.
C3_Witness ==
    /\ kind = "FactorizationModel"
    /\ config.loss \in {"pointwise", "bpr", "adaptive"}
    /\ _net # NoNet
    /\ call.op = "predict"
    /\ call.ratings
    /\ call.outcome = "ValueError"

IsPermutation(indices, n) ==
    /\ Len(indices) = n
    /\ \A q \in 1..n : \E r \in 1..n : indices[r] = q

\* C4: in every epoch of SequenceModel.fit, when the minibatches are formed a
\* permutation of the examples has been drawn and the sequences and the targets
\* are the given arrays reordered by it.
C4_SequencesShuffledEachEpoch ==
    (kind = "SequenceModel" /\ pc = "batch") =>
        /\ IsPermutation(fit.shuffle_indices, Len(fit.targets))
        /\ fit.sequences_tensor = Take(fit.sequences, fit.shuffle_indices)
        /\ fit.targets_tensor = Take(fit.targets, fit.shuffle_indices)

\* C5: in the loss of a minibatch of SequenceModel.fit, whichever of the three
\* losses, the term of every position whose target id is 0 is zero.
C5_PaddedPositionsContributeZero ==
    (kind = "SequenceModel" /\ pc = "backward") =>
        \A t \in 1..Len(fit.loss.terms) :
            \A b \in 1..Len(fit.loss.batch_item) :
                \A p \in 1..Len(fit.loss.batch_item[b]) :
                    fit.loss.batch_item[b][p] = 0 => fit.loss.terms[t][b][p] = 0

\* the tables of a network have exactly the ids 0..num - 1
TableSized(table, num) == DOMAIN table = 0..(num - 1)

\* all entries of a table are zero
TableZero(table) == \A id \in DOMAIN table : \A c \in DOMAIN table[id] : table[id][c] = 0

\* a factorization network as fit creates it: tables of the given sizes, zero biases
FreshBilinear(net, num_users, num_items) ==
    /\ TableSized(net.user_embeddings, num_users)
    /\ TableSized(net.user_biases, num_users)
    /\ TableSized(net.item_embeddings, num_items)
    /\ TableSized(net.item_biases, num_items)
    /\ TableZero(net.user_biases)
    /\ TableZero(net.item_biases)

FreshFactorization(net, num_users, num_items) ==
    IF net.kind = "TruncatedBilinearNet"
    THEN /\ FreshBilinear(net.rating_net, num_users, num_items)
         /\ FreshBilinear(net.observed_net, num_users, num_items)
    ELSE /\ net.kind = "BilinearNet"
         /\ FreshBilinear(net, num_users, num_items)

\* a sequence network as fit creates it
FreshSequence(net, num_items) ==
    /\ net.kind \in {"LSTMNet", "PoolNet", "PopularityNet"}
    /\ TableSized(net.item_biases, num_items)
    /\ TableZero(net.item_biases)
    /\ net.kind # "PopularityNet" => TableSized(net.item_embeddings, num_items)

\* the largest id of the arrays plus one
CardinalityOf(seqs, tgts) ==
    LET ids == Ids2(seqs) \cup Ids2(tgts)
    IN  1 + CHOOSE x \in ids : \A y \in ids : y <= x

\* a step that is a call of fit
FitCalled ==
    /\ pc = "idle"
    /\ call'.op = "fit"
    /\ call' # call

\* the call has left a new network, sized to the data of the call
FitReplaced ==
    /\ pc' = "epoch"
    /\ IF kind = "FactorizationModel"
       THEN /\ _num_users' = fit'.interactions.shape[1]
            /\ _num_items' = fit'.interactions.shape[2]
            /\ FreshFactorization(_net', fit'.interactions.shape[1],
                                  fit'.interactions.shape[2])
       ELSE /\ _num_items' = CardinalityOf(fit'.sequences, fit'.targets)
            /\ FreshSequence(_net', CardinalityOf(fit'.sequences, fit'.targets))

C7_PaddingRowStaysZero ==
    (kind = "SequenceModel" /\ _net # NoNet) =>
        /\ \A c \in DOMAIN _net.item_biases[0] : _net.item_biases[0][c] = 0
        /\ _net.kind # "PopularityNet" =>
              \A c \in DOMAIN _net.item_embeddings[0] : _net.item_embeddings[0][c] = 0

\* C7 witness: with weight decay, after at least one optimizer step has moved a
\* bias, a minibatch whose sampled negatives include id 0 is about to be applied.
C7_Witness ==
    /\ kind = "SequenceModel"
    /\ pc = "backward"
    /\ config.l2 # 0
    /\ fit.batch_num + fit.epoch_num >= 1
    /\ 0 \in fit.loss.lookups.negative_ids
    /\ ~TableZero(_net.item_biases)
    /\ _net.item_biases[0][1] = 0

\* histories a caller may pass to a fitted controller: rows of ids of its table
HistoriesOf(num_items) == SeqsUpTo(0..(num_items - 1), 2) \ {<<>>}

\* C8: for a fitted SequenceModel with representation popularity, the scores
\* predict returns for an item are the same for every two histories, and the
\* scores a predict call has returned are those of every other history.
C8_PopularityIgnoresHistory ==
    (kind = "SequenceModel" /\ _net # NoNet /\ config.representation = "popularity") =>
        /\ \A h1, h2 \in HistoriesOf(_num_items) :
              \A item \in 0..(_num_items - 1) :
                  PredictOut(_net, <<h1>>, <<item>>) = PredictOut(_net, <<h2>>, <<item>>)
        /\ (pc = "idle" /\ call.op = "predict" /\ call.outcome = "scores") =>
              \A h \in HistoriesOf(_num_items) :
                  call.out = PredictOut(_net, <<h>>, call.item_ids)

\* C8 witness: a fitted popularity controller has returned a score other than
\* the initial zero for a history that is not empty of items.
C8_Witness ==
    /\ kind = "SequenceModel"
    /\ config.representation = "popularity"
    /\ call.op = "predict"
    /\ call.outcome = "scores"
    /\ call.sequences = <<<<1>>>>
    /\ call.out[1] # 0

(***************************************************************************)
(* compute_mrr (under SpecEval).                                           *)
(***************************************************************************)
\* the score of the target of position p of row b in the last compute_mrr call
PositiveScore(b, p) == SeqForward(_net, call.sequences, call.targets)[b][p]

\* the score of the k-th sampled negative at that position
NegativeScore(k, b, p) ==
    SeqForward(_net, call.sequences,
               NegativesLike(call.rng, k - 1, call.targets, _num_items))[b][p]

NegativesGreater(b, p) ==
    Cardinality({k \in 1..call.num_samples : NegativeScore(k, b, p) > PositiveScore(b, p)})

NegativesGreaterOrEqual(b, p) ==
    Cardinality({k \in 1..call.num_samples : NegativeScore(k, b, p) >= PositiveScore(b, p)})

\* the positions of the targets that are not the sentinel, row by row
TargetPositions ==
    LET NotSentinel(bp) == call.targets[bp[1]][bp[2]] # 0
    IN  SelectSeq(Flatten([b \in 1..Len(call.targets) |->
                              [p \in 1..Len(call.targets[b]) |-> <<b, p>>]]), NotSentinel)

MrrReturned == call.op = "compute_mrr" /\ call.outcome = "scores"

\* C6 (amended): compute_mrr returns one value for each position whose target is
\* not the sentinel 0, in row order, and the value is 1 / count where count is 1
\* plus the number of the num_samples sampled negatives whose score is strictly
\* greater than the score of the positive (a negative that ties is not counted).
C6_CountsStrictlyGreater ==
    MrrReturned =>
        /\ Len(call.out) = Len(TargetPositions)
        /\ \A q \in 1..Len(TargetPositions) :
              /\ call.out[q].num = 1
              /\ call.out[q].den =
                    1 + NegativesGreater(TargetPositions[q][1], TargetPositions[q][2])

\* C6 witness: compute_mrr has returned a value for a position where one sampled
\* negative scores above the positive and another one ties with it.
C6_Witness ==
    /\ MrrReturned
    /\ \E q \in 1..Len(TargetPositions) :
          /\ NegativesGreater(TargetPositions[q][1], TargetPositions[q][2]) >= 1
          /\ NegativesGreaterOrEqual(TargetPositions[q][1], TargetPositions[q][2])
                > NegativesGreater(TargetPositions[q][1], TargetPositions[q][2])

\* C6 as stated: count is 1 plus the number of sampled negatives whose score is
\* greater than or equal to the score of the positive.
C6_CountsGreaterOrEqual ==
    MrrReturned =>
        /\ Len(call.out) = Len(TargetPositions)
        /\ \A q \in 1..Len(TargetPositions) :
              /\ call.out[q].num = 1
              /\ call.out[q].den =
                    1 + NegativesGreaterOrEqual(TargetPositions[q][1], TargetPositions[q][2])

(***************************************************************************)
(* The epochs of fit (under Spec).                                         *)
(***************************************************************************)
\* the (user, item, rating) triples of three parallel arrays
Triples(users, items, ratings) ==
    [q \in 1..Len(users) |-> <<users[q], items[q], ratings[q]>>]

\* the triples of the minibatches of the running epoch of FactorizationModel.fit,
\* as zip pairs the slices of the three tensors, in order
EpochTriples ==
    LET u == _minibatch(fit.users, config.batch_size)
        i == _minibatch(fit.items, config.batch_size)
        r == _minibatch(fit.ratings, config.batch_size)
    IN  Flatten([k \in 1..Min(Len(u), Min(Len(i), Len(r))) |-> Triples(u[k], i[k], r[k])])

\* the triples of the matrix given to the running fit, in stored order
InputTriples ==
    Triples(fit.interactions.row, fit.interactions.col, fit.interactions.data)

\* C11: in every epoch of FactorizationModel.fit one permutation of the entries
\* is drawn and applied to users, items and ratings alike: the minibatches of the
\* epoch, taken in order, hold the (user, item, rating) triples of the input
\* reordered by that permutation, so each triple of the input once and no user
\* paired with the item or rating of another entry.
C11_OnePermutationForAllArrays ==
    (kind = "FactorizationModel" /\ pc \in {"batch", "backward"}) =>
        /\ IsPermutation(fit.shuffle_indices, Len(InputTriples))
        /\ Len(EpochTriples) = Len(InputTriples)
        /\ \A q \in 1..Len(InputTriples) :
              EpochTriples[q] = InputTriples[fit.shuffle_indices[q]]

\* C11 witness: in the second epoch of a fit on two entries with minibatches of
\* one, the permutation drawn has swapped the entries and the first minibatch
\* has been applied.
C11_Witness ==
    /\ kind = "FactorizationModel"
    /\ pc = "batch"
    /\ fit.epoch_num = 1
    /\ fit.batch_num = 1
    /\ config.batch_size = 1
    /\ fit.shuffle_indices = <<2, 1>>
    /\ EpochTriples = <<InputTriples[2], InputTriples[1]>>
    /\ InputTriples[1] # InputTriples[2]

\* the number of examples of the running fit
FitExamples ==
    IF kind = "FactorizationModel" THEN Len(fit.interactions.row) ELSE Len(fit.sequences)

\* the minibatches of the running epoch (of the first of the zipped tensors)
EpochBatches ==
    IF kind = "FactorizationModel"
    THEN _minibatch(fit.users, config.batch_size)
    ELSE _minibatch(fit.sequences_tensor, config.batch_size)

\* ceil(n / b) for b >= 1: the least c with c * b >= n
Ceil(n, b) == CHOOSE c \in 0..n : c * b >= n /\ \A e \in 0..n : e * b >= n => c <= e

\* an epoch is running: its minibatches are ceil(N / B), all of size B except a
\* possibly shorter last one that is not empty; the optimizer has applied one
\* step for each minibatch before the current one; at the optimizer step the
\* gradients were cleared and the loss of the current minibatch is computed
MinibatchesInOrder ==
    (pc \in {"batch", "backward"}) =>
        /\ Len(EpochBatches) = Ceil(FitExamples, config.batch_size)
        /\ \A k \in 1..Len(EpochBatches) :
              /\ Len(EpochBatches[k]) >= 1
              /\ Len(EpochBatches[k]) <= config.batch_size
              /\ k < Len(EpochBatches) => Len(EpochBatches[k]) = config.batch_size
        /\ fit.steps = fit.epoch_num * Ceil(FitExamples, config.batch_size) + fit.batch_num
        /\ fit.batch_num <= Len(EpochBatches)
        /\ pc = "batch" => fit.loss = NoLoss /\ fit.grad # "zero"
        /\ pc = "backward" =>
              /\ fit.grad = "zero"
              /\ fit.loss # NoLoss
              /\ fit.batch_num < Len(EpochBatches)

\* the steps of fit one after another: the loss of a minibatch is computed after
\* the gradients are cleared and changes no parameter; the optimizer step follows
\* it, is the only change of the step count and adds one; fit returns after
\* n_iter * ceil(N / B) optimizer steps
StepsInOrder ==
    /\ (pc = "batch" /\ pc' = "backward") =>
          /\ fit'.grad = "zero"
          /\ fit'.steps = fit.steps
          /\ _net' = _net
    /\ (pc = "backward") =>
          /\ pc' = "batch"
          /\ fit'.steps = fit.steps + 1
          /\ fit'.batch_num = fit.batch_num + 1
          /\ fit'.grad = "applied"
    /\ (pc # "idle" /\ pc # "backward" /\ pc' # "idle") => fit'.steps = fit.steps
    /\ (pc = "epoch" /\ pc' = "idle") =>
          /\ call'.outcome = "returned"
          /\ fit.steps = config.n_iter * Ceil(FitExamples, config.batch_size)

\* C12: in fit of both controllers, with N examples and batch size B >= 1, each
\* epoch forms ceil(N / B) minibatches, all of size B except a possibly shorter,
\* non-empty last one; for each minibatch the gradients are cleared, the loss is
\* computed, and backward and exactly one optimizer step follow; a fit that
\* completes has applied exactly n_iter * ceil(N / B) optimizer steps.
C12_MinibatchesAndSteps ==
    /\ []MinibatchesInOrder
    /\ [][StepsInOrder]_vars

\* C12 witness: the last epoch of a fit of two epochs on two examples with
\* minibatches of one is at its second minibatch, after three optimizer steps.
C12_Witness ==
    /\ pc = "backward"
    /\ config.n_iter = 2
    /\ config.batch_size = 1
    /\ FitExamples = 2
    /\ fit.epoch_num = 1
    /\ fit.batch_num = 1
    /\ fit.steps = 3

\* C12 witness of the short last minibatch: one example, minibatches of two
C12_WitnessShort ==
    /\ pc = "backward"
    /\ config.batch_size = 2
    /\ FitExamples = 1
    /\ Len(EpochBatches) = 1

(***************************************************************************)
(* The ids looked up during fit (under Spec).                              *)
(***************************************************************************)
\* the ids are ids of a table of num rows
IdsWithin(ids, num) == ids \subseteq 0..(num - 1)

BilinearSized(net) ==
    /\ TableSized(net.user_embeddings, _num_users)
    /\ TableSized(net.user_biases, _num_users)
    /\ TableSized(net.item_embeddings, _num_items)
    /\ TableSized(net.item_biases, _num_items)

\* every table of the network has the rows of the stored cardinalities
NetSized ==
    CASE _net.kind = "BilinearNet" -> BilinearSized(_net)
      [] _net.kind = "TruncatedBilinearNet" ->
            BilinearSized(_net.rating_net) /\ BilinearSized(_net.observed_net)
      [] _net.kind = "PopularityNet" -> TableSized(_net.item_biases, _num_items)
      [] _net.kind \in {"LSTMNet", "PoolNet"} ->
            /\ TableSized(_net.item_biases, _num_items)
            /\ TableSized(_net.item_embeddings, _num_items)
      [] OTHER -> FALSE

\* the stored cardinalities are those of the data of the running fit
CardinalitiesOfThisFit ==
    IF kind = "FactorizationModel"
    THEN /\ _num_users = fit.interactions.shape[1]
         /\ _num_items = fit.interactions.shape[2]
    ELSE _num_items = CardinalityOf(fit.sequences, fit.targets)

\* the ids of the data of the running fit
DataIdsWithin ==
    IF kind = "FactorizationModel"
    THEN /\ IdsWithin(Ids(fit.interactions.row), _num_users)
         /\ IdsWithin(Ids(fit.interactions.col), _num_items)
    ELSE IdsWithin(Ids2(fit.sequences) \cup Ids2(fit.targets), _num_items)

\* C15: during any fit, a re-fit included, the stored cardinalities are those
\* of the data of that fit call, the tables of the network have exactly that many
\* rows, and every id looked up for a minibatch is a row of its table: user ids
\* in [0, num_users), observed item ids, history ids and all sampled negative ids
\* in [0, num_items).
C15_LookupsInsideTables ==
    (pc # "idle") =>
        /\ CardinalitiesOfThisFit
        /\ NetSized
        /\ DataIdsWithin
        /\ pc = "backward" =>
              /\ IdsWithin(fit.loss.lookups.user_ids, _num_users)
              /\ IdsWithin(fit.loss.lookups.item_ids, _num_items)
              /\ IdsWithin(fit.loss.lookups.sequence_ids, _num_items)
              /\ IdsWithin(fit.loss.lookups.negative_ids, _num_items)
              /\ fit.loss_fnc # "regression" => fit.loss.lookups.negative_ids # {}

\* C15 witness: a re-fit of a FactorizationModel on the matrix of one user and
\* one item has drawn its negatives for a minibatch.
C15_Witness ==
    /\ kind = "FactorizationModel"
    /\ pc = "backward"
    /\ call.op = "fit"
    /\ call.refit
    /\ _num_items = 1
    /\ fit.loss.lookups.negative_ids = {0}

(***************************************************************************)
(* The evaluation calls (under SpecEval).                                  *)
(***************************************************************************)
\* a step that is a call of predict or of compute_mrr
EvalCalled ==
    /\ pc = "idle"
    /\ call'.op \in {"predict", "compute_mrr"}
    /\ call' # call

\* the scores of the arguments of the call c under the parameters net
ScoresOf(net, c) ==
    IF c.op = "compute_mrr"
    THEN ComputeMrrOut(net, c.sequences, c.targets, _num_items, c.num_samples, c.rng)
    ELSE IF kind = "SequenceModel"
    THEN PredictOut(net, c.sequences, c.item_ids)
    ELSE IF net.kind = "TruncatedBilinearNet"
    THEN (IF c.ratings
          THEN TruncatedForward(net, c.user_ids, c.item_ids).rating
          ELSE TruncatedForward(net, c.user_ids, c.item_ids).observed)
    ELSE BilinearForward(net, c.user_ids, c.item_ids)

\* C13: a call of FactorizationModel.predict, SequenceModel.predict or
\* SequenceModel.compute_mrr leaves every model parameter, the stored
\* cardinalities and the training configuration unchanged, and the scores it
\* returns are those of the parameters it found; the network changes only when
\* fit creates it and in the optimizer step inside fit.
C13_EvaluationChangesNothing ==
    [][/\ EvalCalled =>
             /\ UNCHANGED <<kind, config, _num_users, _num_items, _net, pc, fit>>
             /\ call'.outcome = "scores" => call'.out = ScoresOf(_net', call')
       /\ _net' # _net => (FitCalled \/ pc = "backward")]_vars

\* C13 witness: compute_mrr has returned the scores of a fitted controller whose
\* biases are not the initial zeros, and tables and cardinality are in place.
C13_Witness ==
    /\ kind = "SequenceModel"
    /\ call.op = "compute_mrr"
    /\ call.outcome = "scores"
    /\ call.num_samples >= 1
    /\ Len(call.out) >= 1
    /\ ~TableZero(_net.item_biases)
    /\ TableSized(_net.item_biases, _num_items)

\* C14: on a controller that was constructed and never fitted, a call of predict
\* (either controller) or of compute_mrr returns no scores: it ends in an error
\* without the network being evaluated (the TypeError of calling the missing
\* network, or the ValueError of FactorizationModel.predict(ratings=True) under a
\* loss without ratings, which is raised first), and the controller is still
\* without network and cardinalities.
C14_UnfitNeverScores ==
    [][(_net = NoNet /\ EvalCalled) =>
          /\ call'.outcome \in {"TypeError", "ValueError"}
          /\ call'.outcome = "ValueError" =>
                /\ kind = "FactorizationModel"
                /\ call'.ratings
                /\ config.loss \notin {"regression", "truncated_regression"}
          /\ ~call'.evaluated
          /\ call'.out = <<>>
          /\ _net' = NoNet
          /\ _num_users' = NoCard
          /\ _num_items' = NoCard
          /\ UNCHANGED <<kind, config, pc, fit>>]_vars

\* C14 witness: compute_mrr was called on a SequenceModel that was never fitted
\* and has ended in the TypeError.
C14_Witness ==
    /\ kind = "SequenceModel"
    /\ _net = NoNet
    /\ _num_items = NoCard
    /\ call.op = "compute_mrr"
    /\ call.num_samples >= 1
    /\ call.outcome = "TypeError"

\* C14 witness for FactorizationModel.predict on a controller never fitted
C14_WitnessFactorization ==
    /\ kind = "FactorizationModel"
    /\ _net = NoNet
    /\ call.op = "predict"
    /\ ~call.ratings
    /\ call.outcome = "TypeError"

\* C14 as stated: on a controller never fitted every call of predict or of
\* compute_mrr ends in the error of the missing network.
C14_UnfitErrorIsMissingNetwork ==
    [][(_net = NoNet /\ EvalCalled) =>
          /\ call'.outcome = "TypeError"
          /\ ~call'.evaluated
          /\ call'.out = <<>>
          /\ _net' = NoNet
          /\ _num_users' = NoCard
          /\ _num_items' = NoCard]_vars

====
